---- MODULE Spec2Model ----
(***************************************************************************)
(* Model of scripts/perf-test.py, the semfora-engine performance test      *)
(* suite: the executor (run_with_timing), the benchmark functions that     *)
(* aggregate trials into BenchmarkResults, the indexing/search batches and *)
(* the baseline comparator (compare_reports).                              *)
(*                                                                         *)
(* Durations are integers counted in ticks of 10 microseconds (1e-5 s), so *)
(* that round(x, 4) is a rounding to a multiple of 10 ticks.  A mean is    *)
(* kept as an exact fraction [num, den].                                   *)
(***************************************************************************)
EXTENDS Integers, Sequences, FiniteSets, TLC

VARIABLES
    current,        \* compare_reports: current.benchmarks, <<[name, real_time]>>
    baseline,       \* compare_reports: baseline.benchmarks
    regressions,    \* compare_reports: the regressions list
    improvements,   \* compare_reports: the improvements list
    unchanged,      \* compare_reports: the unchanged list
    summary,        \* compare_reports: the three counts of the summary line
    outRegressions, \* compare_reports: the regressions as emitted, in output order
    outImprovements,\* compare_reports: the improvements as emitted, in output order
    cmpPc,          \* "input" before compare_reports ran, "done" after
    proc,           \* run_with_timing: what the external process does
    timeoutArg,     \* run_with_timing: the timeout argument, in seconds
    ret,            \* run_with_timing: the returned (duration, success, output)
    execPc,         \* "call" before run_with_timing ran, "returned" after
    trials,         \* benchmark functions: the behaviours of the processes of the first loop
    trials2,        \* benchmark functions: the behaviours of the processes of the second loop
    results,        \* benchmark functions: the BenchmarkResults returned
    benchPc,        \* "input" before a benchmark function ran, its name after
    batchKind,      \* batch: "indexing" (run_indexing_benchmarks) or "search" (run_query_benchmarks)
    nTasks,         \* batch: len(repos), resp. len(search_tasks)
    cpuCount,       \* batch: os.cpu_count()
    batchPc,        \* batch: where the coordinating thread is
    seqIdx,         \* batch: the next repo of the sequential loop
    clearIdx,       \* batch: the next repo of the cache-clearing pre-pass
    cache,          \* batch: per repo, whether its on-disk cache is "cold" or "warm"
    task,           \* batch: per submitted future, its state
    collected,      \* batch: the futures as_completed has handed to the loop body
    completion,     \* batch: the tasks that have finished, in the order they finished
    early,          \* batch: the futures that had finished when as_completed was entered
    taskRuntime,    \* batch: per task, how long its external process takes
    now,            \* batch: time.perf_counter()
    windowStart,    \* batch: seq_start, and par_start once it is taken
    started,        \* batch: per task of the pool, when a worker took it
    ensureIdx,      \* batch: the next repo of the "ensure indexes exist" loop
    invoked,        \* batch: the external invocations made so far, <<command, timeout>>
    batchResults,   \* batch: the `results` list of the run_* function
    history,        \* main: HISTORY_DIR, file stamp -> the snapshot stored under perf_<stamp>.json
    clock,          \* main: datetime.now() in whole seconds
    binExists,      \* main: ENGINE_BIN.exists()
    args,           \* main: per run, the parsed arguments
    timestamp,      \* main: per run, the timestamp taken at line 1082
    selected,       \* main: per run, json_files[0] of load_baseline ({} when there is none)
    mainBaseline,   \* main: per run, the baseline load_baseline returned ({} for None)
    did,            \* main: per run, what the run has done so far
    mainPc          \* main: per run, where main() is

cmpVars == <<current, baseline, regressions, improvements, unchanged, summary,
             outRegressions, outImprovements, cmpPc>>
execVars == <<proc, timeoutArg, ret, execPc>>

benchVars == <<trials, trials2, results, benchPc>>
batchVars == <<batchKind, nTasks, cpuCount, batchPc, seqIdx, clearIdx, cache, task,
               collected, completion, early, taskRuntime, now, windowStart, started,
               ensureIdx, invoked, batchResults>>

mainVars == <<history, clock, binExists, args, timestamp, selected, mainBaseline, did, mainPc>>

vars == <<cmpVars, execVars, benchVars, batchVars, mainVars>>

(***************************************************************************)
(* Units and bounds                                                        *)
(***************************************************************************)
\* ticks in one millisecond and in one second
TicksPerSec == 100000
TicksPerMs == TicksPerSec \div 1000

\* the comparator's fine-grained inputs are whole milliseconds 0..MaxMs
MaxMs == 120
\* the longest report of the comparator's multi-name inputs
MaxReportLen == 3

Abs(x) == IF x < 0 THEN -x ELSE x

SeqMax(S) == CHOOSE x \in S : \A y \in S : y <= x
SeqMin(S) == CHOOSE x \in S : \A y \in S : x <= y

(***************************************************************************)
(* Executor: run_with_timing                                               *)
(***************************************************************************)
\* A process behaviour: kind "exit" is a process that exits by itself after
\* `runtime` ticks with exit code `code` (negative: killed by a signal) having
\* written `out`; kind "fault" is subprocess.run raising the exception `exc`
\* with text `out` after `runtime` ticks (missing binary, permission error,
\* undecodable output).  Never is the runtime of a process that hangs.
Never == 10000 * TicksPerSec

Behaviour(kind, code, runtime, out, exc) ==
    [kind |-> kind, code |-> code, runtime |-> runtime, out |-> out, exc |-> exc]

\* subprocess.run(..., timeout=timeout) raises TimeoutExpired iff the process
\* has not exited when the timeout has passed
TimedOut(beh, timeout) == beh.kind = "exit" /\ beh.runtime > timeout * TicksPerSec

\* (variant: the timeout branch reports the elapsed time, as the generic
\* except branch does, instead of the timeout argument)
RunWithTimingElapsedOnTimeout(beh, timeout) ==
    IF beh.kind = "fault"
      THEN [duration |-> beh.runtime, success |-> FALSE, output |-> beh.out, raised |-> FALSE]
    ELSE IF TimedOut(beh, timeout)
      THEN [duration |-> timeout * TicksPerSec + 1, success |-> FALSE,
            output |-> "Timeout", raised |-> FALSE]
    ELSE [duration |-> beh.runtime, success |-> beh.code = 0, output |-> beh.out,
          raised |-> FALSE]

\* run_with_timing(cmd, timeout, cwd): the try body and its two except
\* clauses; `raised` tells whether an exception leaves the function (both
\* TimeoutExpired and every other Exception are caught)
RunWithTiming(beh, timeout) ==
    IF beh.kind = "fault"
      THEN [duration |-> beh.runtime, success |-> FALSE, output |-> beh.out, raised |-> FALSE]
    ELSE IF TimedOut(beh, timeout)
      THEN [duration |-> timeout * TicksPerSec, success |-> FALSE,
            output |-> "Timeout", raised |-> FALSE]
    ELSE [duration |-> beh.runtime, success |-> beh.code = 0, output |-> beh.out,
          raised |-> FALSE]

\* the timeouts the callers pass (30, 60, 120) and the default (300), and the
\* process behaviours tried against them
Timeouts == {30, 60, 120, 300}
ExecRuntimes == {0, 10000, 29 * TicksPerSec, 31 * TicksPerSec, 61 * TicksPerSec,
                 121 * TicksPerSec, 301 * TicksPerSec, Never}
ExecBehaviours ==
    {Behaviour("exit", c, t, o, "none") : c \in {0, 1, -9}, t \in ExecRuntimes, o \in {"", "text"}}
    \cup {Behaviour("fault", 0, t, o, e) : t \in {0, 10000}, o \in {"No such file", "denied"},
                                           e \in {"OSError", "ValueError"}}

NoReturn == [duration |-> 0, success |-> FALSE, output |-> "", raised |-> FALSE]

IdleBehaviour == Behaviour("exit", 0, 0, "", "none")

\* the executor variables of a specification that does not exercise them
ExecIdle ==
    /\ proc = IdleBehaviour /\ timeoutArg = 300 /\ ret = NoReturn /\ execPc = "idle"

\* the benchmark-function variables of a specification that does not exercise them
BenchIdle ==
    /\ trials = << >> /\ trials2 = << >> /\ results = << >> /\ benchPc = "idle"

RunWithTimingCall ==
    /\ execPc = "call"
    /\ ret' = RunWithTiming(proc, timeoutArg)
    /\ execPc' = "returned"
    /\ UNCHANGED <<proc, timeoutArg>>
    /\ UNCHANGED <<cmpVars, benchVars, batchVars, mainVars>>

(***************************************************************************)
(* Aggregation helpers of the benchmark functions                          *)
(***************************************************************************)
\* error=None of the dataclass; "" is an empty error text
None == "<None>"

RECURSIVE SumSeq(_)
SumSeq(q) == IF q = << >> THEN 0 ELSE Head(q) + SumSeq(Tail(q))

Range(q) == {q[i] : i \in DOMAIN q}

\* statistics.mean(times), as the exact fraction sum/len
Mean(times) == [num |-> SumSeq(times), den |-> Len(times)]

\* a single measured duration and the literal real_time=0, as fractions
Exact(t) == [num |-> t, den |-> 1]

\* round(x, 4): to the nearest multiple of 10 ticks (1e-4 s), a tie going
\* to the even multiple
Round4(t) ==
    LET lo == (t \div 10) * 10
        r == t - lo
    IN  IF r < 5 THEN lo
        ELSE IF r > 5 THEN lo + 10
        ELSE IF (lo \div 10) % 2 = 0 THEN lo ELSE lo + 10

\* round(statistics.stdev(times), 4): the sample standard deviation
\* sqrt((n * sum(y^2) - sum(y)^2) / (n * (n - 1))), y = x - min(times), rounded
\* to a multiple of 10 ticks
Stdev4(times) ==
    LET n == Len(times)
        lo == SeqMin(Range(times))
        y == [i \in DOMAIN times |-> times[i] - lo]
        N == n * SumSeq([i \in DOMAIN y |-> y[i] * y[i]]) - SumSeq(y) * SumSeq(y)
        D == n * (n - 1)
        K == (SeqMax(Range(times)) - lo) \div 10 + 1
        k == CHOOSE j \in 0..K :
                /\ (j = 0 \/ (10 * j - 5) * (10 * j - 5) * D <= N)
                /\ N < (10 * j + 5) * (10 * j + 5) * D
    IN  10 * k

\* one run_with_timing call per trial of a loop
Rets(trs, timeout) == [i \in DOMAIN trs |-> RunWithTiming(trs[i], timeout)]

\* times: the durations appended under `if success:`
RECURSIVE SuccessTimes(_)
SuccessTimes(rets) ==
    IF rets = << >> THEN << >>
    ELSE IF Head(rets).success
      THEN <<Head(rets).duration>> \o SuccessTimes(Tail(rets))
      ELSE SuccessTimes(Tail(rets))

\* BenchmarkResult(name=..., real_time=..., iterations=..., error=..., metadata=...)
BenchmarkResult(name, real_time, iterations, error, metadata) ==
    [name |-> name, real_time |-> real_time, iterations |-> iterations,
     error |-> error, metadata |-> metadata]

\* the dataclass defaults: iterations: int = 1, metadata = {}
DefaultIterations == 1
NoMetadata == [type |-> "none"]

MinMax(times) ==
    [min |-> Round4(SeqMin(Range(times))), max |-> Round4(SeqMax(Range(times)))]

(***************************************************************************)
(* The benchmark functions, as functions of the executor's returns         *)
(***************************************************************************)
\* benchmark_index_repo: one run_with_timing call with the default timeout
IndexResult(name, r) ==
    BenchmarkResult(name, Exact(r.duration), 1,
                    IF r.success THEN None ELSE r.output,
                    [repo |-> "r1"])

\* benchmark_search: `if not times` returns the failure Result, which does
\* not pass iterations
SearchResult(name, rets) ==
    LET times == SuccessTimes(rets)
    IN  IF times = << >>
          THEN BenchmarkResult(name, Exact(0), DefaultIterations,
                               "All iterations failed", NoMetadata)
          ELSE BenchmarkResult(name, Mean(times), Len(times), None,
                   [min |-> Round4(SeqMin(Range(times))),
                    max |-> Round4(SeqMax(Range(times))),
                    stddev |-> IF Len(times) > 1 THEN Stdev4(times) ELSE 0])

\* benchmark_get_overview, benchmark_diff_analysis (and benchmark_get_call_graph,
\* benchmark_query_module, which have the same shape): min and max only
MinMaxResult(name, rets, failText) ==
    LET times == SuccessTimes(rets)
    IN  IF times = << >>
          THEN BenchmarkResult(name, Exact(0), DefaultIterations, failText, NoMetadata)
          ELSE BenchmarkResult(name, Mean(times), Len(times), None, MinMax(times))

\* one block of benchmark_validation: a Result is appended only `if times`
ValidationBlock(name, rets) ==
    LET times == SuccessTimes(rets)
    IN  IF times = << >> THEN << >>
        ELSE <<BenchmarkResult(name, Mean(times), Len(times), None, MinMax(times))>>

\* benchmark_cache_performance: the cold Result only `if cold_success`, the
\* warm Result only `if warm_times`
CacheResults(cold, warmRets) ==
    LET warm_times == SuccessTimes(warmRets)
    IN  (IF cold.success
           THEN <<BenchmarkResult("cache_cold/r1", Exact(cold.duration), 1, None,
                                  [type |-> "cold_start"])>>
           ELSE << >>)
        \o (IF warm_times # << >>
              THEN <<BenchmarkResult("cache_warm/r1", Mean(warm_times), Len(warm_times),
                                     None, [type |-> "warm_cache"])>>
              ELSE << >>)

\* random_query of run_stress_test: its own subprocess.run(timeout=30); the
\* query counts as ok whenever subprocess.run raises nothing, whatever the
\* exit code
StressTimeout == 30
RandomQuery(beh) ==
    IF beh.kind = "fault" THEN [duration |-> beh.runtime, ok |-> FALSE]
    ELSE IF TimedOut(beh, StressTimeout)
      THEN [duration |-> StressTimeout * TicksPerSec, ok |-> FALSE]
    ELSE [duration |-> beh.runtime, ok |-> TRUE]

RECURSIVE Successful(_)
Successful(qs) ==
    IF qs = << >> THEN << >>
    ELSE IF Head(qs).ok THEN <<Head(qs).duration>> \o Successful(Tail(qs))
    ELSE Successful(Tail(qs))

\* the Result of run_stress_test; total_time is the wall clock of the whole
\* pool.map call
StressResult(query_results, total_time) ==
    LET successful == Successful(query_results)
        num_queries == Len(query_results)
    IN  BenchmarkResult("stress/concurrent_queries", Exact(total_time), num_queries, None,
            [avg_latency |-> IF successful # << >> THEN Mean(successful) ELSE Exact(0),
             min_latency |-> IF successful # << >> THEN SeqMin(Range(successful)) ELSE 0,
             max_latency |-> IF successful # << >> THEN SeqMax(Range(successful)) ELSE 0,
             success_count |-> Len(successful),
             failure_count |-> num_queries - Len(successful)])

(***************************************************************************)
(* The benchmark functions as operations on the inputs `trials`, `trials2` *)
(***************************************************************************)
BenchDone(fn, res) ==
    /\ benchPc = "input"
    /\ benchPc' = fn
    /\ results' = res
    /\ UNCHANGED <<trials, trials2>>
    /\ UNCHANGED <<cmpVars, execVars, batchVars, mainVars>>

BenchmarkIndexRepo ==
    BenchDone("benchmark_index_repo",
              <<IndexResult("indexing/r1", RunWithTiming(trials[1], 300))>>)

BenchmarkSearch ==
    BenchDone("benchmark_search",
              <<SearchResult("search_symbols/r1/function", Rets(trials, 30))>>)

BenchmarkGetOverview ==
    BenchDone("benchmark_get_overview",
              <<MinMaxResult("overview/r1", Rets(trials, 30), "Failed")>>)

BenchmarkDiffAnalysis ==
    BenchDone("benchmark_diff_analysis",
              <<MinMaxResult("diff_analysis/r1", Rets(trials, 60), "Failed or no commits")>>)

BenchmarkValidation ==
    BenchDone("benchmark_validation",
              ValidationBlock("validate_duplicates/r1", Rets(trials, 120))
              \o ValidationBlock("validate_complexity/r1", Rets(trials2, 120)))

BenchmarkCachePerformance ==
    BenchDone("benchmark_cache_performance",
              CacheResults(RunWithTiming(trials[1], 60), Rets(trials2, 30)))

RunStressTest ==
    \E total_time \in {SeqMax({RandomQuery(trials[i]).duration : i \in DOMAIN trials}),
                       SumSeq([i \in DOMAIN trials |-> RandomQuery(trials[i]).duration])} :
        BenchDone("run_stress_test",
                  <<StressResult([i \in DOMAIN trials |-> RandomQuery(trials[i])], total_time)>>)

\* the Result names a benchmark function is to report
Units(fn) ==
    CASE fn = "benchmark_index_repo" -> {"indexing/r1"}
      [] fn = "benchmark_search" -> {"search_symbols/r1/function"}
      [] fn = "benchmark_get_overview" -> {"overview/r1"}
      [] fn = "benchmark_diff_analysis" -> {"diff_analysis/r1"}
      [] fn = "benchmark_validation" -> {"validate_duplicates/r1", "validate_complexity/r1"}
      [] fn = "benchmark_cache_performance" -> {"cache_cold/r1", "cache_warm/r1"}
      [] fn = "run_stress_test" -> {"stress/concurrent_queries"}
      [] OTHER -> {}

\* the trials of the inputs: two successes as in 0.10 s and 0.12 s, one that
\* does not fall on a multiple of 1e-4 s, a non-zero exit with and without
\* output, and a process that hangs
TrialBehaviours ==
    {Behaviour("exit", 0, 10000, "ok", "none"),
     Behaviour("exit", 0, 12000, "ok", "none"),
     Behaviour("exit", 0, 12346, "ok", "none"),
     Behaviour("exit", 1, 5000, "boom", "none"),
     Behaviour("exit", 1, 5000, "", "none"),
     Behaviour("exit", 0, Never, "", "none")}
Trials2Behaviours ==
    {Behaviour("exit", 0, 10000, "ok", "none"),
     Behaviour("exit", 1, 5000, "boom", "none")}

\* the number of trials of a loop (iterations) is 1..MaxTrials
MaxTrials == 3

(***************************************************************************)
(* Batches: run_indexing_benchmarks and the search batch of                *)
(* run_query_benchmarks                                                    *)
(***************************************************************************)
\* the most tasks of a batch and the most CPUs of the host
MaxTasks == 3
MaxCpus == 2

TaskIds == 1..MaxTasks

\* run_query_benchmarks builds one search task per repo, pattern of
\* SEARCH_PATTERNS[:4] and mode; the model takes the first MaxPatterns patterns
MaxPatterns == 1
SearchModes == {"symbols", "semantic"}
SearchesPerRepo == MaxPatterns * Cardinality(SearchModes)

\* the repo a task works on (cwd of its process): the repo itself for an
\* indexing task, the repo of the tuple for a search task
Target(t) ==
    IF batchKind = "indexing" THEN t ELSE ((t - 1) \div SearchesPerRepo) + 1

\* len(repos)
NumRepos == IF nTasks = 0 THEN 0 ELSE Target(nTasks)

\* max_workers=min(len(repos), os.cpu_count() or 4) of the ProcessPoolExecutor,
\* max_workers=8 of the ThreadPoolExecutor
SearchPoolWidth == 8
PoolWidth ==
    IF batchKind = "indexing"
      THEN (IF nTasks < cpuCount THEN nTasks ELSE cpuCount)
      ELSE SearchPoolWidth

\* what a task does: it returns a Result without error ("ok"), a Result
\* carrying an error ("fail"), or raises ("raise")
Outcomes == {"ok", "fail", "raise"}

\* a Result of a batch: its name as <<prefix, repo>> ("indexing/<repo>",
\* "indexing_parallel/<repo>"; the two totals carry no repo, written 0) and
\* whether it carries an error, and its real_time
BatchResult(name, failed, real_time) ==
    [name |-> name, failed |-> failed, real_time |-> real_time]

SequentialTotalName == <<"indexing/sequential_total", 0>>
ParallelTotalName == <<"indexing/parallel_total", 0>>

\* (variant: results.insert(0, result) instead of results.append(result))
SeqPrepend(res, r) == <<r>> \o res

\* results.append(result) of the sequential loop
SeqAppend(res, r) == Append(res, r)

Running == {t \in 1..nTasks : task[t] = "running"}
Finished == {t \in 1..nTasks : task[t] \in Outcomes}

\* the batch variables of a specification that does not exercise them
BatchIdle ==
    /\ batchKind = "none" /\ nTasks = 0 /\ cpuCount = 1 /\ batchPc = "idle"
    /\ seqIdx = 0 /\ clearIdx = 0
    /\ cache = [t \in TaskIds |-> "cold"]
    /\ task = [t \in TaskIds |-> "none"]
    /\ collected = {}
    /\ completion = << >> /\ early = {}
    /\ taskRuntime = [t \in TaskIds |-> 0]
    /\ now = 0 /\ windowStart = 0
    /\ started = [t \in TaskIds |-> 0]
    /\ ensureIdx = 0 /\ invoked = {}
    /\ batchResults = << >>

\* the timeouts of the invocations of a batch: clear_cache, run_with_timing's
\* default (index generate), benchmark_search; NoTimeout is a subprocess.run
\* call without a timeout argument
ClearTimeout == 30
IndexTimeout == 300
SearchTimeout == 30
NoTimeout == 0 - 1

BatchFrame ==
    UNCHANGED <<cmpVars, execVars, benchVars, mainVars, batchKind, nTasks, cpuCount, taskRuntime>>

\* Phase 1, one pass of `for name, path in repos`: benchmark_index_repo((name,
\* path, True)) clears the cache (the clear command may fail), indexes, and
\* the Result is appended; an exception of the call is not caught here
SequentialIndex ==
    /\ batchKind = "indexing" /\ batchPc = "sequential" /\ seqIdx <= nTasks
    /\ \E outcome \in Outcomes, cleared \in BOOLEAN :
          /\ cache' = [cache EXCEPT ![seqIdx] =
                          IF outcome = "ok" THEN "warm"
                          ELSE IF cleared THEN "cold" ELSE @]
          /\ IF outcome = "raise"
               THEN /\ batchPc' = "raised"
                    /\ UNCHANGED <<seqIdx, batchResults>>
               ELSE /\ batchResults' = SeqAppend(batchResults,
                            BatchResult(<<"indexing", seqIdx>>, outcome = "fail",
                                        taskRuntime[seqIdx]))
                    /\ seqIdx' = seqIdx + 1
                    /\ UNCHANGED batchPc
    /\ invoked' = invoked \cup {<<"cache clear", ClearTimeout>>,
                                <<"index generate", IndexTimeout>>}
    /\ now' = now + taskRuntime[seqIdx]
    /\ UNCHANGED <<clearIdx, task, collected, completion, early, windowStart, started, ensureIdx>>
    /\ BatchFrame

\* the sequential_total Result, then `if parallel and len(repos) > 1`
SequentialTotal ==
    /\ batchKind = "indexing" /\ batchPc = "sequential" /\ seqIdx = nTasks + 1
    /\ batchResults' = Append(batchResults,
                               BatchResult(SequentialTotalName, FALSE, now - windowStart))
    /\ batchPc' = IF nTasks > 1 THEN "clearing" ELSE "done"
    /\ UNCHANGED <<seqIdx, clearIdx, cache, task, collected, completion, early, now, windowStart,
                   started, ensureIdx, invoked>>
    /\ BatchFrame

\* one pass of `for _, path in repos: clear_cache(path)`; clear_cache ignores
\* the exit code and swallows a timeout, so the cache may stay as it was
ClearCachePass ==
    /\ batchKind = "indexing" /\ batchPc = "clearing" /\ clearIdx <= nTasks
    /\ \E cleared \in BOOLEAN :
          cache' = [cache EXCEPT ![clearIdx] = IF cleared THEN "cold" ELSE @]
    /\ clearIdx' = clearIdx + 1
    /\ invoked' = invoked \cup {<<"cache clear", ClearTimeout>>}
    /\ UNCHANGED <<batchPc, seqIdx, task, collected, completion, early, now, windowStart,
                   started, ensureIdx, batchResults>>
    /\ BatchFrame

\* run_query_benchmarks, one pass of "Ensuring indexes exist":
\* subprocess.run(cmd, capture_output=True) has no timeout, so the call
\* returns only when the process exits; if the process hangs the coordinating
\* thread stays blocked in the call
EnsureIndex ==
    /\ batchKind = "search" /\ batchPc = "ensuring" /\ ensureIdx <= NumRepos
    /\ invoked' = invoked \cup {<<"index generate", NoTimeout>>}
    /\ \E hangs \in BOOLEAN :
          IF hangs
            THEN batchPc' = "blocked" /\ UNCHANGED <<ensureIdx, cache>>
            ELSE /\ ensureIdx' = ensureIdx + 1
                 /\ batchPc' = IF ensureIdx = NumRepos THEN "submitting" ELSE "ensuring"
                 /\ \E indexed \in BOOLEAN :
                       cache' = [cache EXCEPT ![ensureIdx] = IF indexed THEN "warm" ELSE @]
    /\ UNCHANGED <<seqIdx, clearIdx, task, collected, completion, early, now, windowStart,
                   started, batchResults>>
    /\ BatchFrame

\* executor.submit for every task of the batch (the dict / list
\* comprehension); the workers take tasks from then on, before the
\* coordinating thread reaches as_completed
SubmitAll ==
    /\ \/ batchKind = "indexing" /\ batchPc = "clearing" /\ clearIdx = nTasks + 1
       \/ batchKind = "search" /\ batchPc = "submitting"
    /\ task' = [t \in TaskIds |-> IF t <= nTasks THEN "queued" ELSE "none"]
    /\ batchPc' = "submitted"
    /\ windowStart' = (IF batchKind = "indexing" THEN now ELSE windowStart)
    /\ UNCHANGED <<seqIdx, clearIdx, cache, collected, completion, early, now, started,
                   ensureIdx, invoked, batchResults>>
    /\ BatchFrame

\* the call as_completed(futures): the futures that are finished by now are
\* set aside, to be yielded first
AsCompleted ==
    /\ batchPc = "submitted"
    /\ early' = Finished
    /\ batchPc' = "collecting"
    /\ UNCHANGED <<seqIdx, clearIdx, cache, task, collected, completion, now, windowStart,
                   started, ensureIdx, invoked, batchResults>>
    /\ BatchFrame

\* a free worker of the pool takes a queued task
WorkerStart(t) ==
    /\ batchPc \in {"submitted", "collecting"} /\ t <= nTasks
    /\ task[t] = "queued"
    /\ Cardinality(Running) < PoolWidth
    /\ task' = [task EXCEPT ![t] = "running"]
    /\ invoked' = invoked \cup {IF batchKind = "indexing"
                                  THEN <<"index generate", IndexTimeout>>
                                  ELSE <<"search", SearchTimeout>>}
    /\ started' = [started EXCEPT ![t] = now]
    /\ UNCHANGED <<batchPc, seqIdx, clearIdx, cache, collected, completion, early, now,
                   windowStart, ensureIdx, batchResults>>
    /\ BatchFrame

\* the task function returns or raises in its worker, not before its process
\* has run for its runtime
WorkerFinish(t) ==
    /\ batchPc \in {"submitted", "collecting"} /\ t <= nTasks
    /\ task[t] = "running"
    /\ \E outcome \in Outcomes :
          /\ task' = [task EXCEPT ![t] = outcome]
          /\ cache' = [cache EXCEPT ![t] =
                          IF batchKind = "indexing" /\ outcome = "ok" THEN "warm" ELSE @]
    /\ completion' = Append(completion, t)
    /\ now' = (IF now < started[t] + taskRuntime[t] THEN started[t] + taskRuntime[t] ELSE now)
    /\ UNCHANGED <<batchPc, seqIdx, clearIdx, collected, early, windowStart, started, ensureIdx,
                   invoked, batchResults>>
    /\ BatchFrame

\* (variant: no try/except around future.result(), the exception leaves the loop)
AfterFutureRaisedUncaught == "raised"

\* `except Exception as e: print(...)`: the loop goes on with the next future
AfterFutureRaised == "collecting"

\* (variant: the name taken from a variable left over from the loop before,
\* which holds the last repo)
CollectedNameStale(t) ==
    IF batchKind = "indexing" THEN <<"indexing_parallel", nTasks>> ELSE <<"search", nTasks>>

\* the name the loop body gives the Result: indexing_parallel/<repo>, resp.
\* the name benchmark_search gave it
CollectedName(t) ==
    IF batchKind = "indexing" THEN <<"indexing_parallel", t>> ELSE <<"search", t>>

\* the future as_completed yields next: first the futures that were finished
\* when it was called, in the iteration order of a set (any order); then the
\* others in the order they finish
YieldsNext(t) ==
    IF early \ collected # {}
      THEN t \in early
      ELSE \E i \in DOMAIN completion :
              /\ completion[i] = t
              /\ \A j \in 1..(i - 1) : completion[j] \in collected

\* one pass of `for future in as_completed(futures)`: future.result() either
\* returns the Result, which is appended, or re-raises the task's exception
CollectFuture(t) ==
    /\ batchPc = "collecting" /\ t <= nTasks
    /\ task[t] \in Outcomes /\ t \notin collected
    /\ YieldsNext(t)
    /\ collected' = collected \cup {t}
    /\ IF task[t] = "raise"
         THEN /\ batchPc' = AfterFutureRaised
              /\ UNCHANGED batchResults
         ELSE /\ batchResults' = Append(batchResults,
                      BatchResult(CollectedName(t), task[t] = "fail", taskRuntime[t]))
              /\ UNCHANGED batchPc
    /\ UNCHANGED <<seqIdx, clearIdx, cache, task, completion, early, now, windowStart, started,
                   ensureIdx, invoked>>
    /\ BatchFrame

\* (variant: par_total is taken inside the loop, after the first future)
FirstCollected == collected # {}

\* the loop over as_completed has handed over every future, and the `with`
\* block has joined the workers
AllCollected == collected = 1..nTasks

\* after the `with` block: the parallel_total Result of the indexing batch;
\* the search batch has no total
BatchEnd ==
    /\ batchPc = "collecting"
    /\ AllCollected
    /\ batchResults' =
          IF batchKind = "indexing"
            THEN Append(batchResults,
                        BatchResult(ParallelTotalName, FALSE, now - windowStart))
            ELSE batchResults
    /\ batchPc' = "done"
    /\ UNCHANGED <<seqIdx, clearIdx, cache, task, collected, completion, early, now, windowStart,
                   started, ensureIdx, invoked>>
    /\ BatchFrame

(***************************************************************************)
(* main(): runs of the suite against the history directory                 *)
(***************************************************************************)
\* the runs of the suite; they may follow each other or overlap (two shells)
Runs == {"a", "b"}

\* the seconds the clock goes through while the runs start: 1..MaxClock
MaxClock == 2

\* the snapshots already stored when the first run starts carry earlier stamps
OldStamps == {0 - 2, 0 - 1}

\* what a stored perf_*.json file holds: a report the program wrote ("valid");
\* a file cut short, which json.load rejects ("truncated"); a file open()
\* cannot read ("unreadable"); well-formed JSON with the keys of a report but a
\* value of another type, e.g. "date": 20240101 or "real_time": "fast", which
\* the dataclass constructors accept without a check ("mistyped")
SnapshotKinds == {"valid", "truncated", "unreadable", "mistyped"}
Snapshot(kind, by) == [kind |-> kind, by |-> by]

\* load_baseline: json_files[0] of sorted(HISTORY_DIR.glob("perf_*.json"),
\* reverse=True), as a set that is empty when there is no file
NewestFile(h) == IF DOMAIN h = {} THEN {} ELSE {SeqMax(DOMAIN h)}

\* load_baseline: None (the empty set) without a file or when open, json.load
\* or a constructor raises; the report of the newest file otherwise
LoadBaseline(h) ==
    IF NewestFile(h) = {} THEN {}
    ELSE LET f == SeqMax(DOMAIN h)
         IN  IF h[f].kind \in {"truncated", "unreadable"} THEN {} ELSE {h[f]}

\* (variant: a failed build only prints its message)
AfterBuildFailedContinue == "checkbin"

\* build_release: sys.exit(1) when cargo build returns non-zero
AfterBuildFailed == "exited"

\* open(HISTORY_DIR / f"perf_{timestamp}.json", "w") and json.dump: the file
\* of that name is created, or truncated and rewritten
Persist(h, stamp, by) ==
    [f \in DOMAIN h \cup {stamp} |-> IF f = stamp THEN Snapshot("valid", by) ELSE h[f]]

NoArgs == [report |-> FALSE, no_build |-> FALSE, compare |-> FALSE]

\* the main variables of a specification that does not exercise them
MainIdle ==
    /\ history = << >>
    /\ clock = 1
    /\ binExists = FALSE
    /\ args = [r \in Runs |-> NoArgs]
    /\ timestamp = [r \in Runs |-> 0]
    /\ selected = [r \in Runs |-> {}]
    /\ mainBaseline = [r \in Runs |-> {}]
    /\ did = [r \in Runs |-> {}]
    /\ mainPc = [r \in Runs |-> "idle"]

MainFrame == UNCHANGED <<cmpVars, execVars, benchVars, batchVars>>

\* datetime.now() moves on by a second
Tick ==
    /\ clock < MaxClock
    /\ clock' = clock + 1
    /\ UNCHANGED <<history, binExists, args, timestamp, selected, mainBaseline, did, mainPc>>
    /\ MainFrame

\* main up to line 1103: the arguments, the directories, the timestamp
MainStart(r) ==
    /\ mainPc[r] = "idle"
    /\ \E a \in [report : BOOLEAN, no_build : BOOLEAN, compare : BOOLEAN] :
          /\ a.report => ~a.no_build /\ ~a.compare
          /\ args' = [args EXCEPT ![r] = a]
          /\ mainPc' = [mainPc EXCEPT ![r] =
                IF a.report THEN "report" ELSE IF a.no_build THEN "checkbin" ELSE "build"]
    /\ timestamp' = [timestamp EXCEPT ![r] = clock]
    /\ UNCHANGED <<history, clock, binExists, selected, mainBaseline, did>>
    /\ MainFrame

\* the --report branch: the newest snapshot is loaded without a try and turned
\* into HTML; nothing is measured and nothing is stored
MainReport(r) ==
    /\ mainPc[r] = "report"
    /\ mainPc' = [mainPc EXCEPT ![r] =
          IF NewestFile(history) = {} THEN "exited"
          ELSE IF history[SeqMax(DOMAIN history)].kind \in {"truncated", "unreadable"}
            THEN "crashed"
          ELSE "reported"]
    /\ UNCHANGED <<history, clock, binExists, args, timestamp, selected, mainBaseline, did>>
    /\ MainFrame

\* build_release
MainBuild(r) ==
    /\ mainPc[r] = "build"
    /\ \E built \in BOOLEAN :
          IF built
            THEN /\ binExists' = TRUE
                 /\ mainPc' = [mainPc EXCEPT ![r] = "checkbin"]
                 /\ UNCHANGED did
            ELSE /\ mainPc' = [mainPc EXCEPT ![r] = AfterBuildFailed]
                 /\ did' = [did EXCEPT ![r] = @ \cup {"build failed"}]
                 /\ UNCHANGED binExists
    /\ UNCHANGED <<history, clock, args, timestamp, selected, mainBaseline>>
    /\ MainFrame

\* if not ENGINE_BIN.exists(): sys.exit(1)
MainCheckBinary(r) ==
    /\ mainPc[r] = "checkbin"
    /\ IF binExists
         THEN mainPc' = [mainPc EXCEPT ![r] = "loadbase"] /\ UNCHANGED did
         ELSE /\ mainPc' = [mainPc EXCEPT ![r] = "exited"]
              /\ did' = [did EXCEPT ![r] = @ \cup {"binary missing"}]
    /\ UNCHANGED <<history, clock, binExists, args, timestamp, selected, mainBaseline>>
    /\ MainFrame

\* baseline = load_baseline() if args.compare else None
MainLoadBaseline(r) ==
    /\ mainPc[r] = "loadbase"
    /\ IF args[r].compare
         THEN /\ selected' = [selected EXCEPT ![r] = NewestFile(history)]
              /\ mainBaseline' = [mainBaseline EXCEPT ![r] = LoadBaseline(history)]
         ELSE UNCHANGED <<selected, mainBaseline>>
    /\ mainPc' = [mainPc EXCEPT ![r] = "context"]
    /\ UNCHANGED <<history, clock, binExists, args, timestamp, did>>
    /\ MainFrame

\* context = get_system_context()
MainGatherContext(r) ==
    /\ mainPc[r] = "context"
    /\ did' = [did EXCEPT ![r] = @ \cup {"context"}]
    /\ mainPc' = [mainPc EXCEPT ![r] = "bench"]
    /\ UNCHANGED <<history, clock, binExists, args, timestamp, selected, mainBaseline>>
    /\ MainFrame

\* (variant: the report is written to the history before the comparison)
AfterBenchmarksPersistFirst == "persist"

\* after the run_* calls: the report is created and compared, then written
AfterBenchmarks == "compare"

\* the run_* calls; an exception that leaves one of them ends the run
MainRunBenchmarks(r) ==
    /\ mainPc[r] = "bench"
    /\ did' = [did EXCEPT ![r] = @ \cup {"benchmarks"}]
    /\ \E raised \in BOOLEAN :
          mainPc' = [mainPc EXCEPT ![r] = IF raised THEN "raised" ELSE AfterBenchmarks]
    /\ UNCHANGED <<history, clock, binExists, args, timestamp, selected, mainBaseline>>
    /\ MainFrame

\* if baseline: comparison_text = compare_reports(report, baseline); with a
\* mistyped baseline compare_reports raises a TypeError when it reaches the
\* value (baseline.context.date[:19], curr.real_time - base.real_time)
MainCompare(r) ==
    /\ mainPc[r] = "compare"
    /\ IF mainBaseline[r] = {}
         THEN mainPc' = [mainPc EXCEPT ![r] = "persist"] /\ UNCHANGED did
         ELSE \E raises \in {b \in BOOLEAN :
                               b => \E snap \in mainBaseline[r] : snap.kind = "mistyped"} :
                 IF raises
                   THEN mainPc' = [mainPc EXCEPT ![r] = "crashed"] /\ UNCHANGED did
                   ELSE /\ mainPc' = [mainPc EXCEPT ![r] = "persist"]
                        /\ did' = [did EXCEPT ![r] = @ \cup {"compared"}]
    /\ UNCHANGED <<history, clock, binExists, args, timestamp, selected, mainBaseline>>
    /\ MainFrame

\* the report is written to the history directory; the run completes
MainPersist(r) ==
    /\ mainPc[r] = "persist"
    /\ history' = Persist(history, timestamp[r], r)
    /\ did' = [did EXCEPT ![r] = @ \cup {"persisted"}]
    /\ mainPc' = [mainPc EXCEPT ![r] = "done"]
    /\ UNCHANGED <<clock, binExists, args, timestamp, selected, mainBaseline>>
    /\ MainFrame

(***************************************************************************)
(* Comparator: compare_reports                                             *)
(***************************************************************************)
\* the two cutoffs of the dual threshold: 10 (percent) and 0.01 s
PctThreshold == 10
AbsThreshold == 1000

CmpNames == {"q", "r", "s"}

\* (variant: the percentage taken of the current time instead of the baseline)
ChangePctOfCurrent(curr_t, base_t) == [num |-> (curr_t - base_t) * 100, den |-> curr_t]

\* change_pct = ((curr.real_time - base.real_time) / base.real_time) * 100,
\* kept as the exact fraction num/den (den = base.real_time > 0)
ChangePct(curr_t, base_t) == [num |-> (curr_t - base_t) * 100, den |-> base_t]

\* abs_change = abs(curr.real_time - base.real_time)
AbsChange(curr_t, base_t) == Abs(curr_t - base_t)

\* change_pct > k and change_pct < k for a fraction with a positive denominator
PctGT(p, k) == p.num > k * p.den
PctLT(p, k) == p.num < k * p.den

\* (variant: both comparisons inclusive, >= and <=)
ClassifyInclusive(curr_t, base_t) ==
    LET change_pct == ChangePct(curr_t, base_t)
        abs_change == AbsChange(curr_t, base_t)
    IN  IF ~PctLT(change_pct, PctThreshold) /\ abs_change >= AbsThreshold
          THEN "regression"
        ELSE IF ~PctGT(change_pct, -PctThreshold) /\ abs_change >= AbsThreshold
          THEN "improvement"
        ELSE "unchanged"

\* the if / elif / else of the loop body: which list the pair goes to
Classify(curr_t, base_t) ==
    LET change_pct == ChangePct(curr_t, base_t)
        abs_change == AbsChange(curr_t, base_t)
    IN  IF PctGT(change_pct, PctThreshold) /\ abs_change > AbsThreshold
          THEN "regression"
        ELSE IF PctLT(change_pct, -PctThreshold) /\ abs_change > AbsThreshold
          THEN "improvement"
        ELSE "unchanged"

\* baseline_lookup = {b.name: b for b in baseline.benchmarks}: the last
\* entry of a name wins
BaselineLookup(base) ==
    [n \in {base[i].name : i \in DOMAIN base} |->
        base[SeqMax({i \in DOMAIN base : base[i].name = n})]]

\* (variant: the real_time == 0 guard left out)
ComparedNoZeroSkip(curr, lookup) == curr.name \in DOMAIN lookup

\* the two `continue` guards of the loop
Compared(curr, lookup) ==
    /\ curr.name \in DOMAIN lookup
    /\ ~(lookup[curr.name].real_time = 0 \/ curr.real_time = 0)

\* the tuple appended to a list: (name, base.real_time, curr.real_time, change_pct)
CmpEntry(curr, base) ==
    [name |-> curr.name, base_t |-> base.real_time, curr_t |-> curr.real_time,
     pct |-> ChangePct(curr.real_time, base.real_time)]

\* the entries of `cur` that the loop appends to the list `kind`, in loop order
RECURSIVE CompareLoop(_, _, _)
CompareLoop(cur, lookup, kind) ==
    IF cur = << >> THEN << >>
    ELSE LET curr == Head(cur)
             rest == CompareLoop(Tail(cur), lookup, kind)
         IN  IF Compared(curr, lookup)
                  /\ Classify(curr.real_time, lookup[curr.name].real_time) = kind
               THEN <<CmpEntry(curr, lookup[curr.name])>> \o rest
               ELSE rest

\* x[3] < y[3] of two change_pct values, exactly: whole parts first, then the
\* remainders cross-multiplied (the denominators are positive)
PctLess(p, q) ==
    LET fp == p.num \div p.den
        fq == q.num \div q.den
    IN  \/ fp < fq
        \/ fp = fq /\ (p.num % p.den) * q.den < (q.num % q.den) * p.den

\* sorted(L, key=lambda x: x[3]): stable, ascending in change_pct
RECURSIVE InsertAscending(_, _)
InsertAscending(x, S) ==
    IF S = << >> THEN <<x>>
    ELSE IF PctLess(x.pct, Head(S).pct) THEN <<x>> \o S
    ELSE <<Head(S)>> \o InsertAscending(x, Tail(S))
RECURSIVE SortedAscending(_)
SortedAscending(L) ==
    IF L = << >> THEN << >>
    ELSE InsertAscending(L[Len(L)], SortedAscending(SubSeq(L, 1, Len(L) - 1)))

\* (variant: reverse=True left out)
SortedNoReverse(L) == SortedAscending(L)

\* sorted(L, key=lambda x: x[3], reverse=True): descending in change_pct,
\* equal keys keep their order
RECURSIVE InsertDescending(_, _)
InsertDescending(x, S) ==
    IF S = << >> THEN <<x>>
    ELSE IF PctLess(Head(S).pct, x.pct) THEN <<x>> \o S
    ELSE <<Head(S)>> \o InsertDescending(x, Tail(S))
RECURSIVE SortedDescending(_)
SortedDescending(L) ==
    IF L = << >> THEN << >>
    ELSE InsertDescending(L[Len(L)], SortedDescending(SubSeq(L, 1, Len(L) - 1)))

CompareReports ==
    /\ cmpPc = "input"
    /\ LET lookup == BaselineLookup(baseline)
       IN  /\ regressions' = CompareLoop(current, lookup, "regression")
           /\ improvements' = CompareLoop(current, lookup, "improvement")
           /\ unchanged' = CompareLoop(current, lookup, "unchanged")
    /\ outRegressions' = SortedDescending(regressions')
    /\ outImprovements' = SortedAscending(improvements')
    /\ summary' = <<Len(regressions'), Len(improvements'), Len(unchanged')>>
    /\ cmpPc' = "done"
    /\ UNCHANGED <<current, baseline>>
    /\ UNCHANGED <<execVars, benchVars, batchVars, mainVars>>

\* Inputs of the comparator.  Result names are unique inside a report the
\* program writes (one name per repo and benchmark kind).
FineTimes == {k * TicksPerMs : k \in 0..MaxMs}
CoarseTimes == {0, 5000, 7000, 10000}

FineReports == {<<[name |-> "q", real_time |-> t]>> : t \in FineTimes}

CoarseReportsOfLen(n) ==
    {r \in [1..n -> [name : CmpNames, real_time : CoarseTimes]] :
        \A i, j \in 1..n : i # j => r[i].name # r[j].name}

CoarseReports == UNION {CoarseReportsOfLen(n) : n \in 0..MaxReportLen}

AllReports == FineReports \cup CoarseReports

\* the comparator variables of a specification that does not exercise them
CmpIdle ==
    /\ current = << >> /\ baseline = << >>
    /\ regressions = << >> /\ improvements = << >> /\ unchanged = << >>
    /\ summary = <<0, 0, 0>>
    /\ outRegressions = << >> /\ outImprovements = << >>
    /\ cmpPc = "idle"

InitCompare ==
    /\ current \in AllReports /\ baseline \in AllReports
    /\ (current \in FineReports <=> baseline \in FineReports)
    /\ regressions = << >> /\ improvements = << >> /\ unchanged = << >>
    /\ summary = <<0, 0, 0>>
    /\ outRegressions = << >> /\ outImprovements = << >>
    /\ cmpPc = "input"
    /\ ExecIdle
    /\ BenchIdle
    /\ BatchIdle
    /\ MainIdle

NextCompare == CompareReports

SpecCompare == InitCompare /\ [][NextCompare]_vars

(***************************************************************************)
(* Claims about the comparator                                             *)
(***************************************************************************)
\* how many entries of the list L carry the name n
CountIn(L, n) == Cardinality({k \in DOMAIN L : L[k].name = n})
ListsHolding(n) ==
    CountIn(regressions, n) + CountIn(improvements, n) + CountIn(unchanged, n)
BaselineTimes(n) == {baseline[j].real_time : j \in {k \in DOMAIN baseline : baseline[k].name = n}}

\* C1: every compared pair is a regression exactly when the current time is
\* more than 10% above the baseline and more than 0.01 s away from it, an
\* improvement exactly when it is more than 10% below and more than 0.01 s
\* away, and unchanged otherwise; both comparisons are strict, and baseline
\* 0.050 s against current 0.070 s is a regression.
C1_DualThreshold ==
    cmpPc = "done" =>
        \A i \in DOMAIN current : \A b \in BaselineTimes(current[i].name) :
            LET c == current[i].real_time
                n == current[i].name
                slower == 10 * c > 11 * b /\ c - b > TicksPerSec \div 100
                faster == 10 * c < 9 * b /\ b - c > TicksPerSec \div 100
            IN  (c # 0 /\ b # 0) =>
                  /\ CountIn(regressions, n) = (IF slower THEN 1 ELSE 0)
                  /\ CountIn(improvements, n) = (IF faster THEN 1 ELSE 0)
                  /\ CountIn(unchanged, n) = (IF slower \/ faster THEN 0 ELSE 1)
                  /\ (b = 5000 /\ c = 7000 => CountIn(regressions, n) = 1)

\* C1 witness: a pair exactly 10% slower and 0.01 s away (0.100 s -> 0.110 s)
\* has been compared and sits in the unchanged list.
C1_Witness ==
    /\ cmpPc = "done"
    /\ baseline = <<[name |-> "q", real_time |-> 10000]>>
    /\ current = <<[name |-> "q", real_time |-> 11000]>>
    /\ Len(unchanged) = 1

\* C2: a current result is in exactly one of the three lists iff the baseline
\* holds a result of the same name and both real_times are non-zero; any other
\* current result, and every baseline-only name, is in no list and is not
\* counted in the summary.
C2_ComparedIffMatchedNonZero ==
    cmpPc = "done" =>
        /\ \A i \in DOMAIN current :
              LET n == current[i].name
                  matched == \E j \in DOMAIN baseline :
                                /\ baseline[j].name = n
                                /\ baseline[j].real_time # 0
                                /\ current[i].real_time # 0
              IN  ListsHolding(n) = (IF matched THEN 1 ELSE 0)
        /\ \A j \in DOMAIN baseline :
              (\A i \in DOMAIN current : current[i].name # baseline[j].name)
                  => ListsHolding(baseline[j].name) = 0
        /\ summary[1] + summary[2] + summary[3]
              = Cardinality({i \in DOMAIN current :
                    \E j \in DOMAIN baseline :
                        /\ baseline[j].name = current[i].name
                        /\ baseline[j].real_time # 0
                        /\ current[i].real_time # 0})
        /\ summary = <<Len(regressions), Len(improvements), Len(unchanged)>>

\* C2 witness: one run that compared a pair, skipped a pair with a zero
\* real_time and skipped a current result without a baseline counterpart.
C2_Witness ==
    /\ cmpPc = "done"
    /\ \E i \in DOMAIN current : \A j \in DOMAIN baseline : baseline[j].name # current[i].name
    /\ \E i \in DOMAIN current : \E j \in DOMAIN baseline :
          /\ baseline[j].name = current[i].name
          /\ (baseline[j].real_time = 0 \/ current[i].real_time = 0)
    /\ summary[1] + summary[2] + summary[3] = 1

\* the verdict compare_reports reached for the single pair of a one-name run
Verdict ==
    IF Len(regressions) = 1 THEN "regression"
    ELSE IF Len(improvements) = 1 THEN "improvement"
    ELSE IF Len(unchanged) = 1 THEN "unchanged"
    ELSE "skipped"
OnePair == cmpPc = "done" /\ Len(current) = 1 /\ Len(baseline) = 1
                /\ current[1].name = baseline[1].name

\* C3 (as claimed): a regression of a against b is an improvement of b
\* against a, and an improvement of a against b is a regression of b against a.
C3_SymmetryAsClaimed ==
    OnePair =>
        LET swapped == Classify(baseline[1].real_time, current[1].real_time)
        IN  /\ Verdict = "regression" => swapped = "improvement"
            /\ Verdict = "improvement" => swapped = "regression"

\* C3 (amended): an improvement of a against b is a regression of b against a;
\* a regression of a against b is an improvement of b against a exactly when
\* a - b is more than 10% of a (the slower time), and is unchanged otherwise.
C3_SymmetryAmended ==
    OnePair =>
        LET a == current[1].real_time
            b == baseline[1].real_time
            swapped == Classify(b, a)
        IN  /\ Verdict = "improvement" => swapped = "regression"
            /\ Verdict = "regression" =>
                  swapped = (IF 10 * (a - b) > a THEN "improvement" ELSE "unchanged")

\* C3 witness: 0.111 s against a baseline of 0.100 s was classified a
\* regression (+11%), while the swapped pair is only 9.9% faster.
C3_Witness ==
    /\ OnePair
    /\ current[1].real_time = 11100
    /\ baseline[1].real_time = 10000
    /\ Verdict = "regression"

\* the change_pct of entry x is at least that of entry y (base times positive)
PctAtLeast(x, y) == (x.curr_t - x.base_t) * y.base_t >= (y.curr_t - y.base_t) * x.base_t

\* C17: the regressions are emitted in descending order of change_pct, the
\* improvements in ascending order, each emitted list holding exactly the
\* entries of its list; the summary reports the sizes of the three lists, and
\* their sum is the number of compared pairs.
C17_EmittedOrderAndSummary ==
    cmpPc = "done" =>
        /\ \A i, j \in DOMAIN outRegressions :
              i < j => PctAtLeast(outRegressions[i], outRegressions[j])
        /\ \A i, j \in DOMAIN outImprovements :
              i < j => PctAtLeast(outImprovements[j], outImprovements[i])
        /\ Len(outRegressions) = Len(regressions)
        /\ Len(outImprovements) = Len(improvements)
        /\ \A k \in DOMAIN regressions : \E i \in DOMAIN outRegressions :
              outRegressions[i] = regressions[k]
        /\ \A k \in DOMAIN improvements : \E i \in DOMAIN outImprovements :
              outImprovements[i] = improvements[k]
        /\ summary = <<Len(regressions), Len(improvements), Len(unchanged)>>
        /\ summary[1] + summary[2] + summary[3]
              = Cardinality({i \in DOMAIN current :
                    /\ current[i].real_time # 0
                    /\ \E n \in DOMAIN BaselineLookup(baseline) :
                          /\ n = current[i].name
                          /\ BaselineLookup(baseline)[n].real_time # 0})

\* C17 witness: two regressions of different change_pct were appended in
\* ascending order and emitted in the other order, next to one improvement.
C17_Witness ==
    /\ cmpPc = "done"
    /\ Len(regressions) = 2 /\ Len(improvements) = 1
    /\ outRegressions # regressions
    /\ outRegressions[1] = regressions[2]

(***************************************************************************)
(* The executor on its own                                                 *)
(***************************************************************************)
InitExec ==
    /\ proc \in ExecBehaviours
    /\ timeoutArg \in Timeouts
    /\ ret = NoReturn
    /\ execPc = "call"
    /\ CmpIdle
    /\ BenchIdle
    /\ BatchIdle
    /\ MainIdle

NextExec == RunWithTimingCall

SpecExec == InitExec /\ [][NextExec]_vars

\* C10: run_with_timing reports success only for exit code 0; a process that
\* has not exited within the timeout yields exactly (timeout, false,
\* "Timeout"); any other fault yields (elapsed, false, error text); no
\* exception leaves the function.
C10_RunWithTimingContract ==
    execPc = "returned" =>
        /\ ~ret.raised
        /\ ret.success => (proc.kind = "exit" /\ proc.code = 0
                                /\ proc.runtime <= timeoutArg * TicksPerSec)
        /\ (proc.kind = "exit" /\ proc.runtime > timeoutArg * TicksPerSec) =>
              (ret.duration = timeoutArg * TicksPerSec /\ ~ret.success
                    /\ ret.output = "Timeout")
        /\ proc.kind = "fault" =>
              (ret.duration = proc.runtime /\ ~ret.success /\ ret.output = proc.out)

\* C10 witness: a process still running after 31 s under a 30 s timeout has
\* been reported as (30 s, false, "Timeout").
C10_Witness ==
    /\ execPc = "returned"
    /\ proc.kind = "exit" /\ proc.runtime = 31 * TicksPerSec /\ proc.code = 0
    /\ timeoutArg = 30
    /\ ret.output = "Timeout"

(***************************************************************************)
(* The benchmark functions on their own                                    *)
(***************************************************************************)
InitBench ==
    /\ \E n \in 1..MaxTrials :
          /\ trials \in [1..n -> TrialBehaviours]
          /\ trials2 \in [1..n -> Trials2Behaviours]
    /\ results = << >>
    /\ benchPc = "input"
    /\ CmpIdle
    /\ ExecIdle
    /\ BatchIdle
    /\ MainIdle

NextBench ==
    \/ BenchmarkIndexRepo
    \/ BenchmarkSearch
    \/ BenchmarkGetOverview
    \/ BenchmarkDiffAnalysis
    \/ BenchmarkValidation
    \/ BenchmarkCachePerformance
    \/ RunStressTest

SpecBench == InitBench /\ [][NextBench]_vars

(***************************************************************************)
(* Claims about the Results of the benchmark functions                     *)
(***************************************************************************)
\* the trials of a loop that succeeded under the timeout (exit code 0 in time)
Succeeded(trs, timeout) ==
    {i \in DOMAIN trs : trs[i].kind = "exit" /\ trs[i].code = 0
                            /\ trs[i].runtime <= timeout * TicksPerSec}
SumOver(trs, I) == SumSeq([i \in DOMAIN trs |-> IF i \in I THEN trs[i].runtime ELSE 0])
NonEmpty(error) == error # None /\ error # ""
Ran(fn) == benchPc = fn

\* C4: in every Result built from repeated trials, iterations is the number
\* of trials that succeeded and real_time is the mean of exactly those trials
\* (benchmark_search, and the stress test's queries).
C4_OnlySuccessfulTrialsCount ==
    /\ Ran("benchmark_search") =>
          LET ok == Succeeded(trials, 30)
              r == results[1]
          IN  /\ r.iterations = Cardinality(ok)
              /\ r.real_time.num * Cardinality(ok) = SumOver(trials, ok) * r.real_time.den
    /\ Ran("run_stress_test") =>
          results[1].iterations = Cardinality(Succeeded(trials, StressTimeout))

\* C4, restricted to benchmark_search with at least one successful trial
\* (the part of the claim the code meets).
C4_SearchWithASuccess ==
    (Ran("benchmark_search") /\ Succeeded(trials, 30) # {}) =>
          LET ok == Succeeded(trials, 30)
              r == results[1]
          IN  /\ r.iterations = Cardinality(ok)
              /\ r.real_time.num * Cardinality(ok) = SumOver(trials, ok) * r.real_time.den
              /\ r.error = None

\* C5: a task whose every trial fails yields real_time = 0, iterations = 0 and
\* error = "All iterations failed"; every Result with iterations = 0 has
\* real_time = 0 and a non-empty error.
C5_AllFailedResult ==
    /\ (Ran("benchmark_search") /\ Succeeded(trials, 30) = {}) =>
          /\ results[1].real_time.num = 0
          /\ results[1].iterations = 0
          /\ results[1].error = "All iterations failed"
    /\ \A i \in DOMAIN results :
          results[i].iterations = 0 =>
              (results[i].real_time.num = 0 /\ NonEmpty(results[i].error))

\* C6: every Result with iterations > 0 that reports min and max has
\* min <= real_time <= max, and a reported stddev is >= 0, and 0 when exactly
\* one trial succeeded.
C6_MinMeanMax ==
    \A i \in DOMAIN results :
        LET r == results[i]
        IN  (r.iterations > 0 /\ "min" \in DOMAIN r.metadata) =>
              /\ r.metadata.min * r.real_time.den <= r.real_time.num
              /\ r.real_time.num <= r.metadata.max * r.real_time.den
              /\ "stddev" \in DOMAIN r.metadata =>
                    /\ r.metadata.stddev >= 0
                    /\ r.iterations = 1 => r.metadata.stddev = 0

\* C7: a Result carries a non-empty error exactly when its real_time is 0,
\* and exactly when all of its trials failed.
C7_ErrorIffZeroRealTime ==
    /\ \A i \in DOMAIN results :
          NonEmpty(results[i].error) <=> results[i].real_time.num = 0
    /\ Ran("benchmark_index_repo") =>
          (NonEmpty(results[1].error) <=> Succeeded(<<trials[1]>>, 300) = {})
    /\ Ran("benchmark_search") =>
          (NonEmpty(results[1].error) <=> Succeeded(trials, 30) = {})

\* C8: every unit a benchmark function measures has a Result under its name in
\* the returned list, with a non-empty error when the unit failed.
C8_EveryUnitReported ==
    \A u \in Units(benchPc) : \E i \in DOMAIN results : results[i].name = u

\* C19: a trial that exits with a non-zero code, faults or times out is a
\* failure, and its duration is in no real_time, min, max or latency statistic
\* and not among the successes, in the stress test and in indexing as well.
C19_FailedTrialsExcluded ==
    /\ Ran("run_stress_test") =>
          LET ok == Succeeded(trials, StressTimeout)
              m == results[1].metadata
          IN  /\ m.success_count = Cardinality(ok)
              /\ m.failure_count = Len(trials) - Cardinality(ok)
              /\ ok # {} =>
                    /\ m.avg_latency.num * Cardinality(ok) = SumOver(trials, ok) * m.avg_latency.den
                    /\ m.min_latency = SeqMin({trials[i].runtime : i \in ok})
                    /\ m.max_latency = SeqMax({trials[i].runtime : i \in ok})
    /\ (Ran("benchmark_index_repo") /\ Succeeded(<<trials[1]>>, 300) = {}) =>
          results[1].real_time.num = 0
    /\ Ran("benchmark_search") =>
          LET ok == Succeeded(trials, 30)
              r == results[1]
          IN  r.real_time.num * Cardinality(ok) = SumOver(trials, ok) * r.real_time.den

\* C19, for the benchmarks that loop over trials with run_with_timing (the
\* part of the claim the code meets): only the successful trials enter
\* real_time, min and max.
C19_LoopedTrials ==
    (Ran("benchmark_search") \/ Ran("benchmark_get_overview")) =>
          LET ok == Succeeded(trials, 30)
              r == results[1]
          IN  /\ r.real_time.num * Cardinality(ok) = SumOver(trials, ok) * r.real_time.den
              /\ ok # {} =>
                    /\ r.metadata.min = Round4(SeqMin({trials[i].runtime : i \in ok}))
                    /\ r.metadata.max = Round4(SeqMax({trials[i].runtime : i \in ok}))

(***************************************************************************)
(* The batches on their own                                                *)
(***************************************************************************)
InitBatch ==
    /\ batchKind \in {"indexing", "search"}
    /\ nTasks \in 1..MaxTasks
    /\ batchKind = "search" => nTasks % SearchesPerRepo = 0
    /\ cpuCount \in 1..MaxCpus
    /\ batchPc = (IF batchKind = "indexing" THEN "sequential" ELSE "ensuring")
    /\ seqIdx = 1 /\ clearIdx = 1
    /\ ensureIdx = 1 /\ invoked = {}
    /\ cache \in [TaskIds -> {"cold", "warm"}]
    /\ \A t \in TaskIds : t > NumRepos => cache[t] = "cold"
    /\ task = [t \in TaskIds |-> "none"]
    /\ collected = {}
    /\ completion = << >> /\ early = {}
    /\ taskRuntime = [t \in TaskIds |-> 0]
    /\ now = 0 /\ windowStart = 0
    /\ started = [t \in TaskIds |-> 0]
    /\ batchResults = << >>
    /\ CmpIdle
    /\ ExecIdle
    /\ BenchIdle
    /\ MainIdle

NextBatch ==
    \/ SequentialIndex
    \/ SequentialTotal
    \/ ClearCachePass
    \/ EnsureIndex
    \/ SubmitAll
    \/ AsCompleted
    \/ \E t \in TaskIds : WorkerStart(t)
    \/ \E t \in TaskIds : WorkerFinish(t)
    \/ \E t \in TaskIds : CollectFuture(t)
    \/ BatchEnd

SpecBatch == InitBatch /\ [][NextBatch]_vars

ResultsNamed(n) == {i \in DOMAIN batchResults : batchResults[i].name = n}
Submitted == \E t \in 1..nTasks : task[t] # "none"

\* C9: once a parallel batch is submitted, a task that raises or fails never
\* aborts it: until the batch is done some step is always possible, and when
\* it is done every task has run to completion, every task that returned has
\* its Result in the list exactly once, and the indexing batch has appended
\* its parallel_total.
C9_FailureIsolation ==
    Submitted =>
        /\ batchPc \in {"submitted", "collecting", "done"}
        /\ batchPc \in {"submitted", "collecting"} => ENABLED NextBatch
        /\ batchPc = "done" =>
              /\ \A t \in 1..nTasks : task[t] \in Outcomes
              /\ \A t \in 1..nTasks :
                    task[t] # "raise" => Cardinality(ResultsNamed(CollectedName(t))) = 1
              /\ batchKind = "indexing" =>
                    batchResults[Len(batchResults)].name = ParallelTotalName

\* C9 witness: an indexing batch is done in which one task raised, one
\* returned a failed Result, and a sibling returned normally and was collected.
C9_Witness ==
    /\ batchKind = "indexing" /\ batchPc = "done"
    /\ \E t1, t2, t3 \in 1..nTasks :
          /\ task[t1] = "raise" /\ task[t2] = "fail" /\ task[t3] = "ok"
          /\ ResultsNamed(CollectedName(t3)) # {}

Min(a, b) == IF a < b THEN a ELSE b
BatchNames == {batchResults[i].name : i \in DOMAIN batchResults}
Terminated == batchPc \in {"done", "raised"}

\* C11: every external invocation of a run carries a finite timeout, and so
\* the run always terminates: as long as the batch has not ended, a step is
\* possible, also when an external process never exits.
C11_EveryInvocationTimed ==
    /\ \A i \in invoked : i[2] # NoTimeout
    /\ Terminated \/ ENABLED NextBatch

\* C12: the number of tasks of a batch executing at the same time never
\* exceeds min(number of tasks, host parallelism).
C12_WidthIsMinOfTasksAndCpus ==
    Cardinality(Running) <= Min(nTasks, cpuCount)

\* C12, for the indexing batch alone (the part of the claim the code meets).
C12_IndexingWidth ==
    batchKind = "indexing" => Cardinality(Running) <= Min(nTasks, cpuCount)

\* the executor was deterministic in this run: every task of the parallel pass
\* that has finished did what the same task did in the sequential pass
SeqOutcome(t) ==
    IF \E i \in DOMAIN batchResults :
           batchResults[i].name = <<"indexing", t>> /\ batchResults[i].failed
      THEN "fail" ELSE "ok"
Deterministic == \A t \in 1..nTasks : task[t] = SeqOutcome(t)
BothPassesDone == batchKind = "indexing" /\ batchPc = "done" /\ nTasks > 1

SequentialNames == {n \in BatchNames : n[1] \in {"indexing", "indexing/sequential_total"}}
ParallelNames == {n \in BatchNames : n[1] \in {"indexing_parallel", "indexing/parallel_total"}}

\* C16 (as claimed): with a deterministic executor the set of Result names of
\* the sequential pass is identical to that of the parallel pass.
C16_SameNamesAsClaimed ==
    (BothPassesDone /\ Deterministic) => SequentialNames = ParallelNames

\* C16 (amended): with a deterministic executor both passes report the same
\* set of repos, one Result per repo and pass and one total per pass; the
\* names differ in their prefix, indexing/<repo> against
\* indexing_parallel/<repo> and sequential_total against parallel_total.
C16_SameReposAmended ==
    (BothPassesDone /\ Deterministic) =>
        /\ {n[2] : n \in {m \in BatchNames : m[1] = "indexing"}} = 1..nTasks
        /\ {n[2] : n \in {m \in BatchNames : m[1] = "indexing_parallel"}} = 1..nTasks
        /\ SequentialTotalName \in BatchNames /\ ParallelTotalName \in BatchNames
        /\ Len(batchResults) = 2 * nTasks + 2
        /\ SequentialNames \cap ParallelNames = {}

\* C16 witness: both passes are done over three repos, one of which failed in
\* both passes.
C16_Witness ==
    /\ BothPassesDone /\ Deterministic /\ nTasks = 3
    /\ \E t \in 1..nTasks : task[t] = "fail"

\* C18 (for the task's own target): while a task of the parallel indexing
\* batch runs, from the moment it starts, the cache of its target is the
\* cleared one, also when a clear command failed; and no clear is issued
\* once the tasks are submitted.
C18_ColdCacheAtStart ==
    batchKind = "indexing" =>
        /\ \A t \in 1..nTasks : task[t] = "running" => cache[t] = "cold"
        /\ Submitted => clearIdx = nTasks + 1

\* C20: in the sequential pass the tasks run one at a time in input order, no
\* pool task exists meanwhile, the Results are in input order, and
\* sequential_total follows them and precedes every Result of the parallel pass.
C20_SequentialOrder ==
    batchKind = "indexing" =>
        /\ batchPc \in {"sequential", "raised"} =>
              /\ ~Submitted
              /\ Len(batchResults) = seqIdx - 1
              /\ \A i \in DOMAIN batchResults : batchResults[i].name = <<"indexing", i>>
        /\ batchPc \in {"clearing", "submitted", "collecting", "done"} =>
              /\ seqIdx = nTasks + 1
              /\ Len(batchResults) >= nTasks + 1
              /\ \A i \in 1..nTasks : batchResults[i].name = <<"indexing", i>>
              /\ batchResults[nTasks + 1].name = SequentialTotalName
              /\ \A i \in DOMAIN batchResults :
                    batchResults[i].name[1] \in {"indexing_parallel", "indexing/parallel_total"}
                        => i > nTasks + 1

\* C20 witness: three repos were indexed one after the other, the total was
\* appended, and Results of the parallel pass follow it.
C20_Witness ==
    /\ batchKind = "indexing" /\ batchPc = "done" /\ nTasks = 3
    /\ batchResults[4].name = SequentialTotalName
    /\ Len(batchResults) > 5

\* the Results of the parallel pass, in list order, and the place of a task
\* in the order of completion
IsParallelResult(r) == r.name[1] \in {"indexing_parallel", "search"}
ParallelResults == SelectSeq(batchResults, IsParallelResult)
CompletionPlace(t) == CHOOSE i \in DOMAIN completion : completion[i] = t
Returned == {t \in collected : task[t] # "raise"}
ExactlyOnceUnderOwnName ==
    /\ Len(ParallelResults) = Cardinality(Returned)
    /\ \A t \in Returned : Cardinality(ResultsNamed(CollectedName(t))) = 1
    /\ \A i \in DOMAIN ParallelResults :
          /\ ParallelResults[i].name[2] \in Returned
          /\ ParallelResults[i].failed = (task[ParallelResults[i].name[2]] = "fail")

\* C21: the Results of a parallel batch are in the list in the order in which
\* their tasks completed, each collected task's Result is there exactly once
\* under the task's own name, and none is lost or duplicated, under every
\* interleaving of the workers.
C21_CompletionOrderExactlyOnce ==
    Submitted =>
        /\ ExactlyOnceUnderOwnName
        /\ batchPc = "done" => collected = 1..nTasks
        /\ \A i, j \in DOMAIN ParallelResults :
              i < j => CompletionPlace(ParallelResults[i].name[2])
                          < CompletionPlace(ParallelResults[j].name[2])

\* C21, without the order of the futures that had finished before the loop
\* over as_completed began (the part of the claim the code meets): exactly
\* once, under the own name, nothing lost; and completion order among the
\* Results of tasks that finished after the loop began.
C21_ExactlyOnceAndLateOrder ==
    Submitted =>
        /\ ExactlyOnceUnderOwnName
        /\ batchPc = "done" => collected = 1..nTasks
        /\ \A i, j \in DOMAIN ParallelResults :
              (i < j /\ ParallelResults[j].name[2] \notin early /\ batchPc # "submitted") =>
                  \/ ParallelResults[i].name[2] \in early
                  \/ CompletionPlace(ParallelResults[i].name[2])
                          < CompletionPlace(ParallelResults[j].name[2])

\* C23: any two tasks of a batch that run at the same time work on different
\* repositories.
C23_ConcurrentTasksOnDistinctRepos ==
    \A t, u \in Running : t # u => Target(t) # Target(u)

\* C23, for the parallel indexing batch alone (the part of the claim the code
\* meets): one task per repo, so no two running tasks share a repo.
C23_IndexingTasksOnDistinctRepos ==
    batchKind = "indexing" => \A t, u \in Running : t # u => Target(t) # Target(u)

(***************************************************************************)
(* The batches with processes that take time                               *)
(***************************************************************************)
\* how long the processes of n tasks take, in steps of the batch clock: each
\* task shorter than the one submitted before it, so that with workers to spare
\* the first task submitted is the last to finish, and with one worker the last
RuntimeProfiles(n) ==
    {[t \in TaskIds |-> IF t <= n THEN n + 1 - t ELSE 0]}

\* the most tasks of a batch whose processes take time
MaxTimedTasks == 2

InitTotals ==
    /\ batchKind \in {"indexing", "search"}
    /\ nTasks \in 1..MaxTimedTasks
    /\ batchKind = "search" => nTasks % SearchesPerRepo = 0
    /\ cpuCount \in 1..MaxCpus
    /\ batchPc = (IF batchKind = "indexing" THEN "sequential" ELSE "ensuring")
    /\ seqIdx = 1 /\ clearIdx = 1
    /\ ensureIdx = 1 /\ invoked = {}
    /\ cache = [t \in TaskIds |-> "cold"]
    /\ task = [t \in TaskIds |-> "none"]
    /\ collected = {}
    /\ completion = << >> /\ early = {}
    /\ taskRuntime \in RuntimeProfiles(nTasks)
    /\ now = 0 /\ windowStart = 0
    /\ started = [t \in TaskIds |-> 0]
    /\ batchResults = << >>
    /\ CmpIdle
    /\ ExecIdle
    /\ BenchIdle
    /\ MainIdle

SpecTotals == InitTotals /\ [][NextBatch]_vars

\* the real_time of the Result of that name (one Result carries it)
RealTimeOf(n) == batchResults[CHOOSE i \in DOMAIN batchResults : batchResults[i].name = n].real_time
SequentialSpans == [t \in 1..nTasks |-> RealTimeOf(<<"indexing", t>>)]

\* C22: the window of a batch total starts no later than the first task of
\* the batch and ends after the last one has completed: no task of the pool
\* is running or waiting when parallel_total is recorded, parallel_total is at
\* least the measured span of every task of the parallel pass, and
\* sequential_total is at least the sum of the spans of the sequential pass.
C22_TotalSpansTheBatch ==
    batchKind = "indexing" =>
        /\ \A t \in 1..nTasks :
              task[t] \in {"running"} \cup Outcomes =>
                  /\ windowStart <= started[t]
                  /\ task[t] \in Outcomes => started[t] + taskRuntime[t] <= now
        /\ SequentialTotalName \in BatchNames =>
              /\ seqIdx = nTasks + 1
              /\ RealTimeOf(SequentialTotalName) >= SumSeq(SequentialSpans)
              /\ \A t \in 1..nTasks : RealTimeOf(SequentialTotalName) >= SequentialSpans[t]
        /\ ParallelTotalName \in BatchNames =>
              /\ \A t \in 1..nTasks : task[t] \in Outcomes
              /\ \A t \in 1..nTasks :
                    RealTimeOf(ParallelTotalName) >= started[t] + taskRuntime[t] - windowStart
              /\ \A i \in DOMAIN batchResults :
                    batchResults[i].name[1] = "indexing_parallel" =>
                        RealTimeOf(ParallelTotalName) >= batchResults[i].real_time

\* C22 witness: both totals are recorded over two repos whose processes take
\* different times, the tasks of the pool having started at different times.
C22_Witness ==
    /\ batchKind = "indexing" /\ batchPc = "done" /\ nTasks = 2
    /\ \E t, u \in 1..nTasks : taskRuntime[t] # taskRuntime[u] /\ started[t] # started[u]
    /\ ParallelTotalName \in BatchNames
    /\ \E t \in 1..nTasks : task[t] = "ok"

(***************************************************************************)
(* The runs of main() on their own                                         *)
(***************************************************************************)
InitMain ==
    /\ \E old \in SUBSET OldStamps : history \in [old -> [kind : SnapshotKinds, by : {"earlier"}]]
    /\ clock = 1
    /\ binExists \in BOOLEAN
    /\ args = [r \in Runs |-> NoArgs]
    /\ timestamp = [r \in Runs |-> 0]
    /\ selected = [r \in Runs |-> {}]
    /\ mainBaseline = [r \in Runs |-> {}]
    /\ did = [r \in Runs |-> {}]
    /\ mainPc = [r \in Runs |-> "idle"]
    /\ CmpIdle
    /\ ExecIdle
    /\ BenchIdle
    /\ BatchIdle

NextMain ==
    \/ Tick
    \/ \E r \in Runs : MainStart(r)
    \/ \E r \in Runs : MainReport(r)
    \/ \E r \in Runs : MainBuild(r)
    \/ \E r \in Runs : MainCheckBinary(r)
    \/ \E r \in Runs : MainLoadBaseline(r)
    \/ \E r \in Runs : MainGatherContext(r)
    \/ \E r \in Runs : MainRunBenchmarks(r)
    \/ \E r \in Runs : MainCompare(r)
    \/ \E r \in Runs : MainPersist(r)

SpecMain == InitMain /\ [][NextMain]_vars

\* the run is past load_baseline, which it called
Loaded(r) ==
    /\ args[r].compare
    /\ mainPc[r] \in {"context", "bench", "compare", "persist", "done", "raised", "crashed"}
\* the snapshot load_baseline selected is not a report the program wrote
\* (the stored snapshots of other kinds all predate the runs and are never rewritten)
SelectedCorrupt(r) == \E f \in selected[r] : history[f].kind # "valid"
Completed == {r \in Runs : mainPc[r] = "done"}
WrittenByRuns == {f \in DOMAIN history : history[f].by \in Runs}

\* C13: load_baseline selects the snapshot of the greatest file name; when it
\* is missing, unreadable or corrupt the run has no baseline, nothing is
\* raised, the comparison is skipped, and the run still runs its benchmarks
\* and persists its report.
C13_CorruptSnapshotMeansNoBaseline ==
    \A r \in Runs :
        (Loaded(r) /\ (selected[r] = {} \/ SelectedCorrupt(r))) =>
            /\ mainBaseline[r] = {}
            /\ mainPc[r] # "crashed"
            /\ "compared" \notin did[r]
            /\ mainPc[r] = "done" => {"benchmarks", "persisted"} \subseteq did[r]

\* C13, for the snapshots that cannot be opened or parsed (the part of the
\* claim the code meets): the newest file is the one selected, no older file
\* is used in its place, the comparison is skipped and the run goes on.
C13_UnparseableSnapshot ==
    \A r \in Runs :
        Loaded(r) =>
            /\ \A f \in selected[r] : \A g \in OldStamps \cap DOMAIN history : g <= f
            /\ (selected[r] = {} \/ \E f \in selected[r] :
                                      history[f].kind \in {"truncated", "unreadable"}) =>
                  /\ mainBaseline[r] = {}
                  /\ mainPc[r] # "crashed"
                  /\ "compared" \notin did[r]
                  /\ mainPc[r] = "done" => {"benchmarks", "persisted"} \subseteq did[r]

\* C14: every completed run has added one snapshot of its own and no stored
\* snapshot is overwritten or removed, so the snapshots the runs have stored
\* are as many as the completed runs, and the earlier snapshots are all there.
C14_OneSnapshotPerCompletedRun ==
    /\ Cardinality(WrittenByRuns) = Cardinality(Completed)
    /\ \A r \in Completed : \E f \in DOMAIN history : history[f].by = r
    /\ \A f \in OldStamps \cap DOMAIN history : history[f].by = "earlier"

\* C14, for the snapshots of earlier seconds (the part of the claim the code
\* meets): a step never removes a stored snapshot, and changes none whose
\* stamp lies before the second in which the oldest run of the model started.
C14_OlderSnapshotsKept ==
    [][\A f \in DOMAIN history :
          /\ f \in DOMAIN history'
          /\ f \in OldStamps => history'[f] = history[f]]_vars

\* C15: a run whose build failed, or whose binary does not exist, ends with a
\* failure status at once: it has made no benchmark invocation, gathered no
\* system context, loaded no baseline and stored no report; and no run goes
\* on after a failed build.
C15_SetupFailureIsFatal ==
    \A r \in Runs :
        /\ "build failed" \in did[r] => mainPc[r] = "exited"
        /\ "binary missing" \in did[r] => mainPc[r] = "exited"
        /\ mainPc[r] = "exited" =>
              /\ did[r] \subseteq {"build failed", "binary missing"}
              /\ \A f \in DOMAIN history : history[f].by # r
              /\ selected[r] = {} /\ mainBaseline[r] = {}
        /\ ({"context", "benchmarks", "persisted"} \cap did[r] # {}) =>
              (binExists /\ "build failed" \notin did[r])

\* C15 witness: one run stopped at a failed build and another at the missing
\* binary, with nothing measured and nothing stored by either.
C15_Witness ==
    /\ \E r \in Runs : mainPc[r] = "exited" /\ did[r] = {"build failed"}
    /\ \E r \in Runs : mainPc[r] = "exited" /\ did[r] = {"binary missing"}
    /\ WrittenByRuns = {}

\* C24: a run never compares against its own report: the baseline is loaded
\* before any benchmark of the run, it is a snapshot another run persisted
\* before, the comparison comes before the run's own write, and the run writes
\* its report once, as its last step.
C24_NeverComparedWithOwnReport ==
    \A r \in Runs :
        /\ \A snap \in mainBaseline[r] :
              /\ snap.by # r
              /\ snap.by \in Runs => "persisted" \in did[snap.by]
        /\ mainPc[r] \in {"idle", "build", "checkbin", "loadbase"} =>
              /\ did[r] \cap {"benchmarks", "compared", "persisted"} = {}
              /\ mainBaseline[r] = {}
        /\ "compared" \in did[r] => ("benchmarks" \in did[r] /\ mainBaseline[r] # {})
        /\ mainPc[r] \in {"bench", "compare", "persist"} =>
              /\ "persisted" \notin did[r]
              /\ \A f \in DOMAIN history : history[f].by # r
        /\ "persisted" \in did[r] =>
              /\ mainPc[r] = "done"
              /\ ~ENABLED MainPersist(r)
              /\ mainBaseline[r] # {} => "compared" \in did[r]

\* C24 witness: a run has compared against the snapshot another run of the
\* model persisted, and then stored its own report.
C24_Witness ==
    \E r \in Runs :
        /\ mainPc[r] = "done" /\ "compared" \in did[r]
        /\ \E snap \in mainBaseline[r] : snap.by \in Runs
        /\ history[timestamp[r]].by = r

====
